---- MODULE Spec2Model ----
(***************************************************************************)
(* Model of client_synergy.py: the Synergy client's protocol engine.       *)
(*   Stream         length-prefixed frames over a socket                   *)
(*   ProtocolMsg    the message templates                                  *)
(*   Protocol       parse / format / _parse                                *)
(*   MessageHandler get_handler / handle / on_* handlers                   *)
(*   run            the read -> parse -> handle -> send loop               *)
(* Bytes are integers 0..255, a Python str is a sequence of one-character  *)
(* strings, and a Python value is a record tagged with its type.           *)
(***************************************************************************)
EXTENDS Integers, Sequences, FiniteSets, TLC

VARIABLES
  pc,          \* position of run(): read, recv_data, parse, handle, send, closed
  inbuf,       \* bytes the server has written that recv has not returned yet
  peerClosed,  \* the server has closed its end of the connection
  sent,        \* payloads of the frames the server has written whole, in order
  aborted,     \* the server has closed after writing only part of a frame
  to_receive,  \* Stream.read: local to_receive
  data,        \* Stream.read: local data
  msg,         \* run: msg
  msg_info,    \* run: msg_info
  response,    \* run: response
  outbuf,      \* arguments of the sock.sendall calls, in order
  closes,      \* number of sock.close() calls
  err,         \* the exception that left run(), or NoErr
  nRead,       \* number of frames Stream.read has returned
  sinceRead,   \* sendall calls since Stream.read last returned a frame
  cpc,         \* codec harness: idle, ready (cbuf is set), parsed, raised, scanned
  ckind,       \* codec harness: how cbuf was made: formatted, truncated, raw, ...
  cname,       \* codec harness: name of the definition formatted
  cargs,       \* codec harness: the arguments formatted
  cbuf,        \* codec harness: the buffer
  cres         \* codec harness: result of Protocol.parse(cbuf) or Protocol._parse,
               \* or what format raised

runVars   == <<pc, inbuf, peerClosed, sent, aborted, to_receive, data, msg, msg_info,
               response, outbuf, closes, err, nRead, sinceRead>>
codecVars == <<cpc, ckind, cname, cargs, cbuf, cres>>
vars      == <<runVars, codecVars>>

----------------------------------------------------------------------------
(* Bounds of the model *)

\* frames the server writes in one run
MaxFrames == 2
\* length of a string argument in the codec harness
MaxStrLen == 2

----------------------------------------------------------------------------
(* Python values and outcomes *)

PyInt(n)   == [t |-> "int",   v |-> n]
PyStr(s)   == [t |-> "str",   v |-> s]
PyBytes(b) == [t |-> "bytes", v |-> b]
PyList(l)  == [t |-> "list",  v |-> l]
PyNone     == [t |-> "None"]

Ok(v)          == [k |-> "ok", v |-> v]
Raise(e, what) == [k |-> "raise", err |-> e, what |-> what]
\* an exception raised with a second argument: raise e(what, arg)
RaiseWith(e, what, arg) == [k |-> "raise", err |-> e, what |-> what, arg |-> arg]
NoErr          == [k |-> "none"]

Min(a, b) == IF a < b THEN a ELSE b
Max(a, b) == IF a > b THEN a ELSE b

\* s[:n] and s[n:] of Python, n of either sign
SliceTo(s, n) ==
  IF n >= 0 THEN SubSeq(s, 1, Min(n, Len(s)))
            ELSE SubSeq(s, 1, Max(Len(s) + n, 0))
SliceFrom(s, n) ==
  IF n >= 0 THEN SubSeq(s, Min(n, Len(s)) + 1, Len(s))
            ELSE SubSeq(s, Max(Len(s) + n, 0) + 1, Len(s))

----------------------------------------------------------------------------
(* ASCII: chr, ord, str.encode('ascii'), bytes.decode('ascii') *)

Upper == <<"A","B","C","D","E","F","G","H","I","J","K","L","M",
           "N","O","P","Q","R","S","T","U","V","W","X","Y","Z">>
Lower == <<"a","b","c","d","e","f","g","h","i","j","k","l","m",
           "n","o","p","q","r","s","t","u","v","w","x","y","z">>
Digits == <<"0","1","2","3","4","5","6","7","8","9">>

chr(b) ==
  IF b \in 65..90 THEN Upper[b - 64]
  ELSE IF b \in 97..122 THEN Lower[b - 96]
  ELSE IF b \in 48..57 THEN Digits[b - 47]
  ELSE IF b = 37 THEN "%"
  ELSE IF b = 95 THEN "_"
  ELSE "#" \o ToString(b)

OrdTable == [c \in {chr(b) : b \in 0..127} |-> CHOOSE b \in 0..127 : chr(b) = c]
ord(c) == OrdTable[c]

encode(s) == [i \in 1..Len(s) |-> ord(s[i])]
decode(b) ==
  IF \E i \in 1..Len(b) : b[i] > 127
  THEN Raise("UnicodeDecodeError", "ascii")
  ELSE Ok(PyStr([i \in 1..Len(b) |-> chr(b[i])]))

----------------------------------------------------------------------------
(* class ProtocolMsg: the templates, in declaration order *)

kMsgHello == <<"S", "y", "n", "e", "r", "g", "y", "%", "2", "i", "%", "2", "i">>
kMsgHelloBack == <<"S", "y", "n", "e", "r", "g", "y", "%", "2", "i", "%", "2", "i", "%", "s">>
\* kMsgCNoop with the template of kMsgCClose pasted in
kMsgCNoopPasted == <<"C", "B", "Y", "E">>
kMsgCNoop == <<"C", "N", "O", "P">>
kMsgCClose == <<"C", "B", "Y", "E">>
kMsgCEnter == <<"C", "I", "N", "N", "%", "2", "i", "%", "2", "i", "%", "4", "i", "%", "2", "i">>
kMsgCLeave == <<"C", "O", "U", "T">>
kMsgCClipboard == <<"C", "C", "L", "P", "%", "1", "i", "%", "4", "i">>
kMsgCScreenSaver == <<"C", "S", "E", "C", "%", "1", "i">>
kMsgCResetOptions == <<"C", "R", "O", "P">>
kMsgCInfoAck == <<"C", "I", "A", "K">>
kMsgCKeepAlive == <<"C", "A", "L", "V">>
kMsgDKeyDownLang == <<"D", "K", "D", "L", "%", "2", "i", "%", "2", "i", "%", "2", "i", "%", "s">>
kMsgDKeyDown == <<"D", "K", "D", "N", "%", "2", "i", "%", "2", "i", "%", "2", "i">>
kMsgDKeyDown1_0 == <<"D", "K", "D", "N", "%", "2", "i", "%", "2", "i">>
kMsgDKeyRepeat == <<"D", "K", "R", "P", "%", "2", "i", "%", "2", "i", "%", "2", "i", "%", "2", "i", "%", "s">>
kMsgDKeyRepeat1_0 == <<"D", "K", "R", "P", "%", "2", "i", "%", "2", "i", "%", "2", "i">>
kMsgDKeyUp == <<"D", "K", "U", "P", "%", "2", "i", "%", "2", "i", "%", "2", "i">>
kMsgDKeyUp1_0 == <<"D", "K", "U", "P", "%", "2", "i", "%", "2", "i">>
kMsgDMouseDown == <<"D", "M", "D", "N", "%", "1", "i">>
kMsgDMouseUp == <<"D", "M", "U", "P", "%", "1", "i">>
kMsgDMouseMove == <<"D", "M", "M", "V", "%", "2", "i", "%", "2", "i">>
kMsgDMouseRelMove == <<"D", "M", "R", "M", "%", "2", "i", "%", "2", "i">>
kMsgDMouseWheel == <<"D", "M", "W", "M", "%", "2", "i", "%", "2", "i">>
kMsgDMouseWheel1_0 == <<"D", "M", "W", "M", "%", "2", "i">>
kMsgDClipboard == <<"D", "C", "L", "P", "%", "1", "i", "%", "4", "i", "%", "1", "i", "%", "s">>
kMsgDInfo == <<"D", "I", "N", "F", "%", "2", "i", "%", "2", "i", "%", "2", "i", "%", "2", "i", "%", "2", "i", "%", "2", "i", "%", "2", "i">>
kMsgDSetOptions == <<"D", "S", "O", "P", "%", "4", "I">>
kMsgDFileTransfer == <<"D", "F", "T", "R", "%", "1", "i", "%", "s">>
kMsgDDragInfo == <<"D", "D", "R", "G", "%", "2", "i", "%", "s">>
kMsgDSecureInputNotification == <<"S", "E", "C", "N", "%", "s">>
kMsgDLanguageSynchronisation == <<"L", "S", "Y", "N", "%", "s">>
kMsgQInfo == <<"Q", "I", "N", "F">>
kMsgEIncompatible == <<"E", "I", "C", "V", "%", "2", "i", "%", "2", "i">>
kMsgEBusy == <<"E", "B", "S", "Y">>
kMsgEUnknown == <<"E", "U", "N", "K">>
kMsgEBad == <<"E", "B", "A", "D">>

\* vars(ProtocolMsg).items(): declaration order
MsgNames == <<"kMsgHello", "kMsgHelloBack", "kMsgCNoop", "kMsgCClose",
             "kMsgCEnter", "kMsgCLeave", "kMsgCClipboard", "kMsgCScreenSaver",
             "kMsgCResetOptions", "kMsgCInfoAck", "kMsgCKeepAlive", "kMsgDKeyDownLang",
             "kMsgDKeyDown", "kMsgDKeyDown1_0", "kMsgDKeyRepeat", "kMsgDKeyRepeat1_0",
             "kMsgDKeyUp", "kMsgDKeyUp1_0", "kMsgDMouseDown", "kMsgDMouseUp",
             "kMsgDMouseMove", "kMsgDMouseRelMove", "kMsgDMouseWheel", "kMsgDMouseWheel1_0",
             "kMsgDClipboard", "kMsgDInfo", "kMsgDSetOptions", "kMsgDFileTransfer",
             "kMsgDDragInfo", "kMsgDSecureInputNotification", "kMsgDLanguageSynchronisation", "kMsgQInfo",
             "kMsgEIncompatible", "kMsgEBusy", "kMsgEUnknown", "kMsgEBad">>

MsgFmt(name) ==
  CASE name = "kMsgHello" -> kMsgHello
    [] name = "kMsgHelloBack" -> kMsgHelloBack
    [] name = "kMsgCNoop" -> kMsgCNoop
    [] name = "kMsgCClose" -> kMsgCClose
    [] name = "kMsgCEnter" -> kMsgCEnter
    [] name = "kMsgCLeave" -> kMsgCLeave
    [] name = "kMsgCClipboard" -> kMsgCClipboard
    [] name = "kMsgCScreenSaver" -> kMsgCScreenSaver
    [] name = "kMsgCResetOptions" -> kMsgCResetOptions
    [] name = "kMsgCInfoAck" -> kMsgCInfoAck
    [] name = "kMsgCKeepAlive" -> kMsgCKeepAlive
    [] name = "kMsgDKeyDownLang" -> kMsgDKeyDownLang
    [] name = "kMsgDKeyDown" -> kMsgDKeyDown
    [] name = "kMsgDKeyDown1_0" -> kMsgDKeyDown1_0
    [] name = "kMsgDKeyRepeat" -> kMsgDKeyRepeat
    [] name = "kMsgDKeyRepeat1_0" -> kMsgDKeyRepeat1_0
    [] name = "kMsgDKeyUp" -> kMsgDKeyUp
    [] name = "kMsgDKeyUp1_0" -> kMsgDKeyUp1_0
    [] name = "kMsgDMouseDown" -> kMsgDMouseDown
    [] name = "kMsgDMouseUp" -> kMsgDMouseUp
    [] name = "kMsgDMouseMove" -> kMsgDMouseMove
    [] name = "kMsgDMouseRelMove" -> kMsgDMouseRelMove
    [] name = "kMsgDMouseWheel" -> kMsgDMouseWheel
    [] name = "kMsgDMouseWheel1_0" -> kMsgDMouseWheel1_0
    [] name = "kMsgDClipboard" -> kMsgDClipboard
    [] name = "kMsgDInfo" -> kMsgDInfo
    [] name = "kMsgDSetOptions" -> kMsgDSetOptions
    [] name = "kMsgDFileTransfer" -> kMsgDFileTransfer
    [] name = "kMsgDDragInfo" -> kMsgDDragInfo
    [] name = "kMsgDSecureInputNotification" -> kMsgDSecureInputNotification
    [] name = "kMsgDLanguageSynchronisation" -> kMsgDLanguageSynchronisation
    [] name = "kMsgQInfo" -> kMsgQInfo
    [] name = "kMsgEIncompatible" -> kMsgEIncompatible
    [] name = "kMsgEBusy" -> kMsgEBusy
    [] name = "kMsgEUnknown" -> kMsgEUnknown
    [] name = "kMsgEBad" -> kMsgEBad

\* the name of each message, spelled out, and two names ProtocolMsg does not have
NameChars(name) ==
  CASE name = "kMsgHello" -> <<"k", "M", "s", "g", "H", "e", "l", "l", "o">>
    [] name = "kMsgHelloBack" -> <<"k", "M", "s", "g", "H", "e", "l", "l", "o", "B", "a", "c", "k">>
    [] name = "kMsgCNoop" -> <<"k", "M", "s", "g", "C", "N", "o", "o", "p">>
    [] name = "kMsgCClose" -> <<"k", "M", "s", "g", "C", "C", "l", "o", "s", "e">>
    [] name = "kMsgCEnter" -> <<"k", "M", "s", "g", "C", "E", "n", "t", "e", "r">>
    [] name = "kMsgCLeave" -> <<"k", "M", "s", "g", "C", "L", "e", "a", "v", "e">>
    [] name = "kMsgCClipboard" -> <<"k", "M", "s", "g", "C", "C", "l", "i", "p", "b", "o", "a", "r", "d">>
    [] name = "kMsgCScreenSaver" -> <<"k", "M", "s", "g", "C", "S", "c", "r", "e", "e", "n", "S", "a", "v", "e", "r">>
    [] name = "kMsgCResetOptions" -> <<"k", "M", "s", "g", "C", "R", "e", "s", "e", "t", "O", "p", "t", "i", "o", "n", "s">>
    [] name = "kMsgCInfoAck" -> <<"k", "M", "s", "g", "C", "I", "n", "f", "o", "A", "c", "k">>
    [] name = "kMsgCKeepAlive" -> <<"k", "M", "s", "g", "C", "K", "e", "e", "p", "A", "l", "i", "v", "e">>
    [] name = "kMsgDKeyDownLang" -> <<"k", "M", "s", "g", "D", "K", "e", "y", "D", "o", "w", "n", "L", "a", "n", "g">>
    [] name = "kMsgDKeyDown" -> <<"k", "M", "s", "g", "D", "K", "e", "y", "D", "o", "w", "n">>
    [] name = "kMsgDKeyDown1_0" -> <<"k", "M", "s", "g", "D", "K", "e", "y", "D", "o", "w", "n", "1", "_", "0">>
    [] name = "kMsgDKeyRepeat" -> <<"k", "M", "s", "g", "D", "K", "e", "y", "R", "e", "p", "e", "a", "t">>
    [] name = "kMsgDKeyRepeat1_0" -> <<"k", "M", "s", "g", "D", "K", "e", "y", "R", "e", "p", "e", "a", "t", "1", "_", "0">>
    [] name = "kMsgDKeyUp" -> <<"k", "M", "s", "g", "D", "K", "e", "y", "U", "p">>
    [] name = "kMsgDKeyUp1_0" -> <<"k", "M", "s", "g", "D", "K", "e", "y", "U", "p", "1", "_", "0">>
    [] name = "kMsgDMouseDown" -> <<"k", "M", "s", "g", "D", "M", "o", "u", "s", "e", "D", "o", "w", "n">>
    [] name = "kMsgDMouseUp" -> <<"k", "M", "s", "g", "D", "M", "o", "u", "s", "e", "U", "p">>
    [] name = "kMsgDMouseMove" -> <<"k", "M", "s", "g", "D", "M", "o", "u", "s", "e", "M", "o", "v", "e">>
    [] name = "kMsgDMouseRelMove" -> <<"k", "M", "s", "g", "D", "M", "o", "u", "s", "e", "R", "e", "l", "M", "o", "v", "e">>
    [] name = "kMsgDMouseWheel" -> <<"k", "M", "s", "g", "D", "M", "o", "u", "s", "e", "W", "h", "e", "e", "l">>
    [] name = "kMsgDMouseWheel1_0" -> <<"k", "M", "s", "g", "D", "M", "o", "u", "s", "e", "W", "h", "e", "e", "l", "1", "_", "0">>
    [] name = "kMsgDClipboard" -> <<"k", "M", "s", "g", "D", "C", "l", "i", "p", "b", "o", "a", "r", "d">>
    [] name = "kMsgDInfo" -> <<"k", "M", "s", "g", "D", "I", "n", "f", "o">>
    [] name = "kMsgDSetOptions" -> <<"k", "M", "s", "g", "D", "S", "e", "t", "O", "p", "t", "i", "o", "n", "s">>
    [] name = "kMsgDFileTransfer" -> <<"k", "M", "s", "g", "D", "F", "i", "l", "e", "T", "r", "a", "n", "s", "f", "e", "r">>
    [] name = "kMsgDDragInfo" -> <<"k", "M", "s", "g", "D", "D", "r", "a", "g", "I", "n", "f", "o">>
    [] name = "kMsgDSecureInputNotification" -> <<"k", "M", "s", "g", "D", "S", "e", "c", "u", "r", "e", "I", "n", "p", "u", "t", "N", "o", "t", "i", "f", "i", "c", "a", "t", "i", "o", "n">>
    [] name = "kMsgDLanguageSynchronisation" -> <<"k", "M", "s", "g", "D", "L", "a", "n", "g", "u", "a", "g", "e", "S", "y", "n", "c", "h", "r", "o", "n", "i", "s", "a", "t", "i", "o", "n">>
    [] name = "kMsgQInfo" -> <<"k", "M", "s", "g", "Q", "I", "n", "f", "o">>
    [] name = "kMsgEIncompatible" -> <<"k", "M", "s", "g", "E", "I", "n", "c", "o", "m", "p", "a", "t", "i", "b", "l", "e">>
    [] name = "kMsgEBusy" -> <<"k", "M", "s", "g", "E", "B", "u", "s", "y">>
    [] name = "kMsgEUnknown" -> <<"k", "M", "s", "g", "E", "U", "n", "k", "n", "o", "w", "n">>
    [] name = "kMsgEBad" -> <<"k", "M", "s", "g", "E", "B", "a", "d">>
    [] name = "kMsgDGameButtons"
         -> <<"k", "M", "s", "g", "D", "G", "a", "m", "e", "B", "u", "t", "t", "o", "n", "s">>
    [] name = "kMsgCnoop" -> <<"k", "M", "s", "g", "C", "n", "o", "o", "p">>

\* the on_* methods class MessageHandler defines
Methods == {
  <<"o", "n", "_", "h", "e", "l", "l", "o">>,
  <<"o", "n", "_", "h", "e", "l", "l", "o", "_", "b", "a", "c", "k">>,
  <<"o", "n", "_", "c", "_", "n", "o", "o", "p">>,
  <<"o", "n", "_", "c", "_", "c", "l", "o", "s", "e">>,
  <<"o", "n", "_", "c", "_", "e", "n", "t", "e", "r">>,
  <<"o", "n", "_", "c", "_", "l", "e", "a", "v", "e">>,
  <<"o", "n", "_", "c", "_", "c", "l", "i", "p", "b", "o", "a", "r", "d">>,
  <<"o", "n", "_", "c", "_", "s", "c", "r", "e", "e", "n", "_", "s", "a", "v", "e", "r">>,
  <<"o", "n", "_", "c", "_", "r", "e", "s", "e", "t", "_", "o", "p", "t", "i", "o", "n", "s">>,
  <<"o", "n", "_", "c", "_", "i", "n", "f", "o", "_", "a", "c", "k">>,
  <<"o", "n", "_", "c", "_", "k", "e", "e", "p", "_", "a", "l", "i", "v", "e">>,
  <<"o", "n", "_", "d", "_", "k", "e", "y", "_", "d", "o", "w", "n", "_", "l", "a", "n", "g">>,
  <<"o", "n", "_", "d", "_", "k", "e", "y", "_", "d", "o", "w", "n">>,
  <<"o", "n", "_", "d", "_", "k", "e", "y", "_", "d", "o", "w", "n", "1", "_", "0">>,
  <<"o", "n", "_", "d", "_", "k", "e", "y", "_", "r", "e", "p", "e", "a", "t">>,
  <<"o", "n", "_", "d", "_", "k", "e", "y", "_", "r", "e", "p", "e", "a", "t", "1", "_", "0">>,
  <<"o", "n", "_", "d", "_", "k", "e", "y", "_", "u", "p">>,
  <<"o", "n", "_", "d", "_", "k", "e", "y", "_", "u", "p", "1", "_", "0">>,
  <<"o", "n", "_", "d", "_", "m", "o", "u", "s", "e", "_", "d", "o", "w", "n">>,
  <<"o", "n", "_", "d", "_", "m", "o", "u", "s", "e", "_", "u", "p">>,
  <<"o", "n", "_", "d", "_", "m", "o", "u", "s", "e", "_", "m", "o", "v", "e">>,
  <<"o", "n", "_", "d", "_", "m", "o", "u", "s", "e", "_", "r", "e", "l", "_", "m", "o", "v", "e">>,
  <<"o", "n", "_", "d", "_", "m", "o", "u", "s", "e", "_", "w", "h", "e", "e", "l">>,
  <<"o", "n", "_", "d", "_", "m", "o", "u", "s", "e", "_", "w", "h", "e", "e", "l", "1", "_", "0">>,
  <<"o", "n", "_", "d", "_", "c", "l", "i", "p", "b", "o", "a", "r", "d">>,
  <<"o", "n", "_", "d", "_", "i", "n", "f", "o">>,
  <<"o", "n", "_", "d", "_", "s", "e", "t", "_", "o", "p", "t", "i", "o", "n", "s">>,
  <<"o", "n", "_", "d", "_", "f", "i", "l", "e", "_", "t", "r", "a", "n", "s", "f", "e", "r">>,
  <<"o", "n", "_", "d", "_", "d", "r", "a", "g", "_", "i", "n", "f", "o">>,
  <<"o", "n", "_", "d", "_", "s", "e", "c", "u", "r", "e", "_", "i", "n", "p", "u", "t", "_", "n", "o", "t", "i", "f", "i", "c", "a", "t", "i", "o", "n">>,
  <<"o", "n", "_", "d", "_", "l", "a", "n", "g", "u", "a", "g", "e", "_", "s", "y", "n", "c", "h", "r", "o", "n", "i", "s", "a", "t", "i", "o", "n">>,
  <<"o", "n", "_", "q", "_", "i", "n", "f", "o">>,
  <<"o", "n", "_", "e", "_", "i", "n", "c", "o", "m", "p", "a", "t", "i", "b", "l", "e">>,
  <<"o", "n", "_", "e", "_", "b", "u", "s", "y">>,
  <<"o", "n", "_", "e", "_", "u", "n", "k", "n", "o", "w", "n">>,
  <<"o", "n", "_", "e", "_", "b", "a", "d">> }

----------------------------------------------------------------------------
(* struct.pack / struct.unpack for '>b', '>h', '>i' *)

IntMin(width) == CASE width = 1 -> -128 [] width = 2 -> -32768
                   [] width = 4 -> -2147483647 - 1
IntMax(width) == CASE width = 1 -> 127 [] width = 2 -> 32767
                   [] width = 4 -> 2147483647

\* big-endian two's complement of val in width bytes
RECURSIVE ToBytes(_, _)
ToBytes(val, width) ==
  IF width = 0 THEN <<>>
  ELSE Append(ToBytes(val \div 256, width - 1), val % 256)

\* struct.pack(struct_fmt, val)
struct_pack(width, val) ==
  IF val.t # "int" THEN Raise("struct.error", "required argument is not an integer")
  ELSE IF val.v < IntMin(width) \/ val.v > IntMax(width)
  THEN Raise("struct.error", "format requires min <= number <= max")
  ELSE Ok(ToBytes(val.v, width))

\* the value of big-endian bytes, a single byte read as unsigned ('>B' for '>b')
RECURSIVE FromBytesUByte(_)
FromBytesUByte(b) ==
  IF Len(b) = 1 THEN b[1]
  ELSE LET hi == SubSeq(b, 1, Len(b) - 1) IN
       (IF Len(hi) = 1 /\ hi[1] >= 128 THEN hi[1] - 256 ELSE FromBytesUByte(hi)) * 256
       + b[Len(b)]

\* the signed value of big-endian bytes
RECURSIVE FromBytes(_)
FromBytes(b) ==
  IF Len(b) = 1 THEN (IF b[1] >= 128 THEN b[1] - 256 ELSE b[1])
  ELSE FromBytes(SubSeq(b, 1, Len(b) - 1)) * 256 + b[Len(b)]

----------------------------------------------------------------------------
(* class Protocol *)

IsDigit(c) == \E i \in 1..10 : Digits[i] = c
DigitVal(c) == (CHOOSE i \in 1..10 : Digits[i] = c) - 1

\* Protocol.__read_int: (ret, buf), or (None, None) when the digits end buf
RECURSIVE read_int_loop(_, _)
read_int_loop(ret, buf) ==
  IF Len(buf) = 0 THEN Raise("IndexError", "string index out of range")
  ELSE IF IsDigit(buf[1])
  THEN IF Len(Tail(buf)) = 0 THEN [k |-> "none"]
       ELSE read_int_loop(ret * 10 + DigitVal(buf[1]), Tail(buf))
  ELSE [k |-> "ok", width |-> ret, fmt |-> buf]
read_int(buf) == read_int_loop(0, buf)

\* Protocol.__unpack_int: (val, buf)
unpack_int(buf, width) ==
  IF width \notin {1, 2, 4}
  THEN Raise("UnboundLocalError", "struct_fmt")
  ELSE IF Len(SliceTo(buf, width)) # width
  THEN Raise("struct.error", "unpack requires a buffer of width bytes")
  ELSE [k |-> "ok", val |-> FromBytes(SliceTo(buf, width)),
        buf |-> SliceFrom(buf, width)]

\* the '%I' loop taking the count for a number of (tag, value) pairs:
\* for i in range(2 * vec_len)
RECURSIVE parse_vec_pairs(_, _, _, _)
parse_vec_pairs(i, vec_len, m, vec_vals) ==
  IF i >= 2 * vec_len THEN [k |-> "ok", vals |-> vec_vals, buf |-> m]
  ELSE IF i % 2 = 0
  THEN LET d == decode(SliceTo(m, 4)) IN
       IF d.k # "ok" THEN d
       ELSE parse_vec_pairs(i + 1, vec_len, SliceFrom(m, 4), Append(vec_vals, d.v))
  ELSE LET u == unpack_int(m, 4) IN
       IF u.k # "ok" THEN u
       ELSE parse_vec_pairs(i + 1, vec_len, u.buf, Append(vec_vals, PyInt(u.val)))

\* Protocol._parse, the '%I' loop: for i in range(vec_len)
RECURSIVE parse_vec(_, _, _, _)
parse_vec(i, vec_len, m, vec_vals) ==
  IF i >= vec_len THEN [k |-> "ok", vals |-> vec_vals, buf |-> m]
  ELSE IF i % 2 = 0
  THEN LET d == decode(SliceTo(m, 4)) IN
       IF d.k # "ok" THEN d
       ELSE parse_vec(i + 1, vec_len, SliceFrom(m, 4), Append(vec_vals, d.v))
  ELSE LET u == unpack_int(m, 4) IN
       IF u.k # "ok" THEN u
       ELSE parse_vec(i + 1, vec_len, u.buf, Append(vec_vals, PyInt(u.val)))

\* a '%s' skipped whenever msg is used up, whatever follows it in the template:
\* if len(msg) == 0: continue
string_skipped_anywhere(m, fmt) == Len(m) = 0

\* Protocol._parse, the test that skips a '%s': msg is used up and so is fmt
string_skipped(m, fmt) == Len(m) = 0 /\ Len(fmt) = 0

\* Protocol._parse, the while loop: Ok(ret), the None it returns, or what it raises
RECURSIVE parse_loop(_, _, _)
parse_loop(fmt, m, ret) ==
  IF Len(fmt) = 0 THEN Ok(ret)
  ELSE IF fmt[1] = "%"
  THEN LET r == read_int(Tail(fmt)) IN
       IF r.k = "raise" THEN r
       ELSE IF r.k = "none"
       THEN Raise("TypeError", "'NoneType' object is not subscriptable")
       ELSE LET width  == r.width
                fmt_id == r.fmt[1]
                rest   == Tail(r.fmt)
            IN
            IF fmt_id = "i"
            THEN IF width = 0 THEN Raise("ValueError", "Width should be non-zero")
                 ELSE LET u == unpack_int(m, width) IN
                      IF u.k # "ok" THEN u
                      ELSE parse_loop(rest, u.buf, Append(ret, PyInt(u.val)))
            ELSE IF fmt_id = "I"
            THEN IF width = 0 THEN Raise("ValueError", "Width should be non-zero")
                 ELSE LET u == unpack_int(m, 4) IN
                      IF u.k # "ok" THEN u
                      ELSE LET v == parse_vec(0, u.val, u.buf, <<>>) IN
                           IF v.k # "ok" THEN v
                           ELSE parse_loop(rest, v.buf, Append(ret, PyList(v.vals)))
            ELSE IF fmt_id = "s"
            THEN IF string_skipped(m, rest) THEN parse_loop(rest, m, ret)
                 ELSE LET u == unpack_int(m, 4) IN
                      IF u.k # "ok" THEN u
                      ELSE parse_loop(rest, SliceFrom(u.buf, u.val),
                                      Append(ret, PyBytes(SliceTo(u.buf, u.val))))
            ELSE Raise("KeyError", "Format not supported")
  ELSE IF Len(m) = 0 THEN Raise("IndexError", "index out of range")
  ELSE IF fmt[1] # chr(m[1]) THEN [k |-> "none"]
  ELSE parse_loop(Tail(fmt), Tail(m), ret)

_parse(fmt, m) == parse_loop(fmt, m, <<>>)

\* msg_identifier taking msg_fmt[:3]
msg_identifier3(msg_fmt) == encode(SliceTo(msg_fmt, 3))

\* msg_fmt[:4].encode('ascii')
msg_identifier(msg_fmt) == encode(SliceTo(msg_fmt, 4))

\* the positions of msg_types whose identifier is msg_bytes[:4]
Matching(msg_bytes) ==
  {i \in 1..Len(MsgNames) :
     SliceTo(msg_bytes, 4) = msg_identifier(MsgFmt(MsgNames[i]))}

\* the definition the for loop of Protocol.parse stops at
FirstMatch(msg_bytes) ==
  CHOOSE i \in Matching(msg_bytes) : \A j \in Matching(msg_bytes) : i <= j

\* parse with a for loop that has no break: the last definition matching wins
parse_last(msg_bytes) ==
  IF Matching(msg_bytes) = {}
  THEN Raise("ValueError", "Could not parse message")
  ELSE LET last == CHOOSE i \in Matching(msg_bytes) : \A j \in Matching(msg_bytes) : i >= j
           msg_name == MsgNames[last]
           r == _parse(MsgFmt(msg_name), msg_bytes)
       IN
       IF r.k = "raise" THEN r
       ELSE IF r.k = "none"
       THEN Raise("TypeError", "can only concatenate list to list")
       ELSE Ok([name |-> msg_name, args |-> r.v])

\* Protocol.parse: Ok([msg_name] + args), or what it raises
parse(msg_bytes) ==
  IF Matching(msg_bytes) = {}
  THEN Raise("ValueError", "Could not parse message")
  ELSE LET msg_name == MsgNames[FirstMatch(msg_bytes)]
           r == _parse(MsgFmt(msg_name), msg_bytes)
       IN
       IF r.k = "raise" THEN r
       ELSE IF r.k = "none"
       THEN Raise("TypeError", "can only concatenate list to list")
       ELSE Ok([name |-> msg_name, args |-> r.v])

\* Protocol.format, the while loop: Ok(msg), or what it raises
RECURSIVE format_loop(_, _, _)
format_loop(fmt, args, m) ==
  IF Len(fmt) = 0 THEN Ok(m)
  ELSE IF fmt[1] = "%"
  THEN LET r == read_int(Tail(fmt)) IN
       IF r.k = "raise" THEN r
       ELSE IF r.k = "none"
       THEN Raise("TypeError", "'NoneType' object is not subscriptable")
       ELSE LET width  == r.width
                fmt_id == r.fmt[1]
                rest   == Tail(r.fmt)
            IN
            IF fmt_id = "i"
            THEN IF width = 0 THEN Raise("ValueError", "Width should be non-zero")
                 ELSE IF Len(args) = 0
                 THEN Raise("IndexError", "tuple index out of range")
                 ELSE IF width \notin {1, 2, 4}
                 THEN Raise("UnboundLocalError", "struct_fmt")
                 ELSE LET p == struct_pack(width, args[1]) IN
                      IF p.k # "ok" THEN p
                      ELSE format_loop(rest, Tail(args), m \o p.v)
            ELSE IF fmt_id = "s"
            THEN IF Len(args) = 0
                 THEN Raise("IndexError", "tuple index out of range")
                 ELSE IF args[1].t # "str"
                 THEN Raise("AttributeError", "object has no attribute 'encode'")
                 ELSE LET val == encode(args[1].v) IN
                      format_loop(rest, Tail(args),
                                  m \o ToBytes(Len(val), 4) \o val)
            ELSE Raise("KeyError", "Format not supported")
  ELSE format_loop(Tail(fmt), args, Append(m, ord(fmt[1])))

format(fmt, args) == format_loop(fmt, args, <<>>)

----------------------------------------------------------------------------
(* class MessageHandler *)

IsUpper(c) == \E i \in 1..26 : Upper[i] = c
lower(c) == IF IsUpper(c) THEN Lower[CHOOSE i \in 1..26 : Upper[i] = c] ELSE c

\* re.sub('[A-Z]', lambda m: '_' + m.group(0).lower(), s)
\* the name lower-cased with no '_' put in: msg_name_short.lower()
re_sub_lower(s) == [i \in 1..Len(s) |-> IF IsUpper(s[i]) THEN lower(s[i]) ELSE s[i]]

RECURSIVE re_sub(_)
re_sub(s) ==
  IF Len(s) = 0 THEN <<>>
  ELSE (IF IsUpper(s[1]) THEN <<"_", lower(s[1])>> ELSE <<s[1]>>) \o re_sub(Tail(s))

\* the method name get_handler derives from a message name
method_name(msg_name) == <<"o", "n">> \o re_sub(SliceFrom(NameChars(msg_name), 4))

\* get_handler falling back on a handler that does nothing:
\* getattr(self, handler_name, self.on_c_noop)
get_handler_default(msg_name) ==
  IF method_name(msg_name) \in Methods
  THEN Ok(method_name(msg_name))
  ELSE Ok(<<"o", "n", "_", "c", "_", "n", "o", "o", "p">>)

\* MessageHandler.get_handler
get_handler(msg_name) ==
  IF method_name(msg_name) \in Methods
  THEN Ok(method_name(msg_name))
  ELSE RaiseWith("KeyError", "Could not find handler for", msg_name)

\* what the libraries a handler calls (pynput, mouse, screeninfo) may do
External == {"works", "raises"}
\* (width, height) of get_monitors()[0]
Monitors == {<<1920, 1080>>, <<801, 601>>}

\* a handler's outcome: what it returns or raises, and the stream.close() calls it made
Outcome(res, closed) == [res |-> res, closed |-> closed]
Returns(v) == Outcome(Ok(v), 0)
Fails(e, what) == Outcome(Raise(e, what), 0)

\* a, b = msg_info[1:] and the like
Unpacks(info, n) == Len(info.args) = n
UnpackError == Fails("ValueError", "wrong number of values to unpack")

\* on_hello answering with the version numbers it received
on_hello_echo(info) ==
  IF ~Unpacks(info, 2) THEN {UnpackError}
  ELSE LET r == format(kMsgHelloBack,
                       <<info.args[1], info.args[2], PyStr(<<"t","a","b","l","e","t">>)>>)
       IN {Outcome(IF r.k = "ok" THEN Ok(PyBytes(r.v)) ELSE r, 0)}

on_hello(info) ==
  IF ~Unpacks(info, 2) THEN {UnpackError}
  ELSE LET r == format(kMsgHelloBack,
                       <<PyInt(1), PyInt(6), PyStr(<<"t","a","b","l","e","t">>)>>)
       IN {Outcome(IF r.k = "ok" THEN Ok(PyBytes(r.v)) ELSE r, 0)}

on_c_close(info) == {Outcome(Raise("SystemExit", "0"), 1)}

\* on_c_enter answering the server: return self.protocol.format(ProtocolMsg.kMsgCNoop)
on_c_enter_reply(info) ==
  IF ~Unpacks(info, 4) THEN {UnpackError}
  ELSE {Returns(PyBytes(encode(<<"C","N","O","P">>)))}

on_c_enter(info) ==
  IF ~Unpacks(info, 4) THEN {UnpackError} ELSE {Returns(PyNone)}

\* on_c_keep_alive answering with kMsgCNoop
on_c_keep_alive_noop(info) ==
  LET r == format(kMsgCNoop, <<>>)
  IN {Outcome(IF r.k = "ok" THEN Ok(PyBytes(r.v)) ELSE r, 0)}

on_c_keep_alive(info) ==
  LET r == format(kMsgCKeepAlive, <<>>)
  IN {Outcome(IF r.k = "ok" THEN Ok(PyBytes(r.v)) ELSE r, 0)}

\* on_d_key_down and on_d_key_up: pynput and button_to_keysym
on_d_key(info) ==
  IF ~Unpacks(info, 3) THEN {UnpackError, Fails("ImportError", "pynput")}
  ELSE {IF e = "works" THEN Returns(PyNone) ELSE Fails("Exception", "pynput")
          : e \in External}

\* on_d_mouse_down and on_d_mouse_up: pynput
on_d_mouse_button(info) ==
  IF Len(info.args) < 1 THEN {Fails("IndexError", "list index out of range")}
  ELSE {IF e = "works" THEN Returns(PyNone) ELSE Fails("Exception", "pynput")
          : e \in External}

on_d_mouse_move(info) ==
  IF ~Unpacks(info, 2) THEN {UnpackError, Fails("ImportError", "mouse")}
  ELSE {IF e = "works" THEN Returns(PyNone) ELSE Fails("Exception", "mouse")
          : e \in External}

on_d_clipboard(info) ==
  IF ~Unpacks(info, 4) THEN {UnpackError} ELSE {Returns(PyNone)}

on_q_info(info) ==
  {Fails("Exception", "screeninfo")} \cup
  { LET values == <<PyInt(0), PyInt(0), PyInt(m[1]), PyInt(m[2]), PyInt(0),
                    PyInt(m[1] \div 2), PyInt(m[2] \div 2)>>
        r == format(kMsgDInfo, values)
    IN Outcome(IF r.k = "ok" THEN Ok(PyBytes(r.v)) ELSE r, 0)
    : m \in Monitors }

on_e_incompatible(info) == {Fails("RuntimeError", "Incompatible protocol version")}
on_e_busy(info)         == {Fails("RuntimeError", "Connection already in use")}
on_e_unknown(info)      == {Fails("RuntimeError", "Not in primary screen configuration map")}
on_e_bad(info)          == {Fails("RuntimeError", "Protocol violation")}

\* method(msg_info): the outcomes of the bound method; a method whose body is a
\* docstring or a print returns None
call(method, info) ==
  CASE method = <<"o","n","_","h","e","l","l","o">> -> on_hello(info)
    [] method = <<"o","n","_","c","_","c","l","o","s","e">> -> on_c_close(info)
    [] method = <<"o","n","_","c","_","e","n","t","e","r">> -> on_c_enter(info)
    [] method = <<"o","n","_","c","_","k","e","e","p","_","a","l","i","v","e">>
         -> on_c_keep_alive(info)
    [] method = <<"o","n","_","d","_","k","e","y","_","d","o","w","n">> -> on_d_key(info)
    [] method = <<"o","n","_","d","_","k","e","y","_","u","p">> -> on_d_key(info)
    [] method = <<"o","n","_","d","_","m","o","u","s","e","_","d","o","w","n">>
         -> on_d_mouse_button(info)
    [] method = <<"o","n","_","d","_","m","o","u","s","e","_","u","p">>
         -> on_d_mouse_button(info)
    [] method = <<"o","n","_","d","_","m","o","u","s","e","_","m","o","v","e">>
         -> on_d_mouse_move(info)
    [] method = <<"o","n","_","d","_","c","l","i","p","b","o","a","r","d">>
         -> on_d_clipboard(info)
    [] method = <<"o","n","_","q","_","i","n","f","o">> -> on_q_info(info)
    [] method = <<"o","n","_","e","_","i","n","c","o","m","p","a","t","i","b","l","e">>
         -> on_e_incompatible(info)
    [] method = <<"o","n","_","e","_","b","u","s","y">> -> on_e_busy(info)
    [] method = <<"o","n","_","e","_","u","n","k","n","o","w","n">> -> on_e_unknown(info)
    [] method = <<"o","n","_","e","_","b","a","d">> -> on_e_bad(info)
    [] OTHER -> {Returns(PyNone)}

\* handle swallowing what the handler raises (except: pass)
handle_swallow(info) ==
  LET h == get_handler(info.name) IN
  IF h.k # "ok" THEN {Outcome(h, 0)}
  ELSE { IF o.res.k = "ok" THEN o ELSE Outcome(Ok(PyNone), o.closed)
         : o \in call(h.v, info) }

\* handle raising again what the handler raised (except: raise)
handle_reraise(info) ==
  LET h == get_handler(info.name) IN
  IF h.k # "ok" THEN {Outcome(h, 0)}
  ELSE call(h.v, info)

\* MessageHandler.handle: the outcomes of handling msg_info
handle(info) ==
  LET h == get_handler(info.name) IN
  IF h.k # "ok" THEN {Outcome(h, 0)}
  ELSE { IF o.res.k = "ok" THEN o
         ELSE Outcome(RaiseWith("RuntimeError", "Error handling message", info),
                      o.closed)
         : o \in call(h.v, info) }

----------------------------------------------------------------------------
(* The server: the peer of the connection *)

Synergy == <<"S","y","n","e","r","g","y">>

\* the payloads the server may send
ServerFrames ==
  { encode(Synergy) \o <<0, 1, 0, 6>>,
    encode(Synergy) \o <<0, 2, 255, 255>>,
    encode(<<"C","A","L","V">>),
    encode(<<"C","B","Y","E">>),
    encode(<<"C","N","O","P">>),
    encode(<<"Q","I","N","F">>),
    encode(<<"E","I","C","V">>) \o <<0, 1, 0, 6>>,
    encode(<<"E","B","S","Y">>),
    encode(<<"E","U","N","K">>),
    encode(<<"E","B","A","D">>),
    encode(<<"D","M","M","V">>) \o <<0, 1, 0, 2>>,
    encode(<<"X","X","X","X">>),
    <<>> }

\* the server writes the frame of payload f; it writes its next frame once the
\* client has taken the bytes written before (recv returns the bytes of a frame
\* in pieces whether or not more bytes follow them)
ServerSend(f) ==
  /\ ~peerClosed
  /\ pc # "closed"
  /\ inbuf = <<>>
  /\ Len(sent) < MaxFrames
  /\ inbuf' = inbuf \o ToBytes(Len(f), 4) \o f
  /\ sent' = Append(sent, f)
  /\ UNCHANGED <<pc, peerClosed, aborted, to_receive, data, msg, msg_info, response,
                 outbuf, closes, err, nRead, sinceRead>>
  /\ UNCHANGED codecVars

\* the server closes the connection between two frames
ServerClose ==
  /\ ~peerClosed
  /\ pc # "closed"
  /\ peerClosed' = TRUE
  /\ UNCHANGED <<pc, inbuf, sent, aborted, to_receive, data, msg, msg_info, response,
                 outbuf, closes, err, nRead, sinceRead>>
  /\ UNCHANGED codecVars

\* the server closes the connection mid-frame: after the length prefix of f and
\* n < len(f) bytes of its payload
ServerAbort(f, n) ==
  /\ ~peerClosed
  /\ pc # "closed"
  /\ inbuf = <<>>
  /\ Len(sent) < MaxFrames
  /\ n < Len(f)
  /\ inbuf' = inbuf \o ToBytes(Len(f), 4) \o SliceTo(f, n)
  /\ aborted' = TRUE
  /\ peerClosed' = TRUE
  /\ UNCHANGED <<pc, sent, to_receive, data, msg, msg_info, response,
                 outbuf, closes, err, nRead, sinceRead>>
  /\ UNCHANGED codecVars

----------------------------------------------------------------------------
(* class Stream and run() *)

\* an exception leaves run() with no finally clause: the stream stays open
LeaveOpen(e, closed) ==
  /\ err' = e
  /\ closes' = closes + closed
  /\ pc' = "closed"

\* an exception leaves run(): the finally clause closes the stream
Leave(e, closed) ==
  /\ err' = e
  /\ closes' = closes + closed + 1
  /\ pc' = "closed"

\* Stream.read returns d to run; its locals are gone
ReadReturns(d) ==
  /\ msg' = PyBytes(d)
  /\ to_receive' = 0
  /\ data' = <<>>
  /\ nRead' = nRead + 1
  /\ sinceRead' = 0
  /\ pc' = "parse"

\* Stream.read, size = self.sock.recv(4): up to 4 of the bytes there are, or
\* b'' when the server has closed
RecvSize ==
  /\ pc = "read"
  /\ \/ /\ inbuf = <<>> /\ peerClosed
        /\ msg' = PyNone
        /\ UNCHANGED <<pc, inbuf, to_receive, data, closes, err, nRead, sinceRead>>
     \/ \E n \in 1..Min(4, Len(inbuf)) :
          /\ inbuf' = SliceFrom(inbuf, n)
          /\ IF n < 4
             THEN /\ Leave(Raise("struct.error", "unpack requires a buffer of 4 bytes"), 0)
                  /\ UNCHANGED <<to_receive, data, msg, nRead, sinceRead>>
             ELSE LET size == FromBytes(SliceTo(inbuf, 4)) IN
                  /\ IF size > 0
                     THEN /\ to_receive' = size
                          /\ data' = <<>>
                          /\ pc' = "recv_data"
                          /\ UNCHANGED <<msg, nRead, sinceRead>>
                     ELSE ReadReturns(<<>>)
                  /\ UNCHANGED <<closes, err>>
  /\ UNCHANGED <<peerClosed, sent, aborted, msg_info, response, outbuf>>
  /\ UNCHANGED codecVars

\* the body of the while loop of Stream.read once recv has returned chunk
ReadLoop(chunk) ==
  IF to_receive - Len(data \o chunk) > 0
  THEN /\ data' = data \o chunk
       /\ to_receive' = to_receive - Len(data \o chunk)
       /\ UNCHANGED <<pc, msg, nRead, sinceRead>>
  ELSE ReadReturns(data \o chunk)

\* Stream.read, data += self.sock.recv(to_receive)
RecvData ==
  /\ pc = "recv_data"
  /\ \/ /\ inbuf = <<>> /\ peerClosed
        /\ ReadLoop(<<>>)
        /\ UNCHANGED inbuf
     \/ \E n \in 1..Min(to_receive, Len(inbuf)) :
          /\ inbuf' = SliceFrom(inbuf, n)
          /\ ReadLoop(SliceTo(inbuf, n))
  /\ UNCHANGED <<peerClosed, sent, aborted, msg_info, response, outbuf, closes, err>>
  /\ UNCHANGED codecVars

\* sock.recv raises (the connection is reset)
RecvError ==
  /\ pc \in {"read", "recv_data"}
  /\ Leave(Raise("OSError", "recv"), 0)
  /\ UNCHANGED <<inbuf, peerClosed, sent, aborted, to_receive, data, msg, msg_info,
                 response, outbuf, nRead, sinceRead>>
  /\ UNCHANGED codecVars

\* run: msg_info = protocol.parse(msg), any exception becoming RuntimeError
Parse ==
  /\ pc = "parse"
  /\ LET r == parse(msg.v) IN
     IF r.k = "ok"
     THEN /\ msg_info' = r.v
          /\ pc' = "handle"
          /\ UNCHANGED <<err, closes>>
     ELSE /\ Leave(Raise("RuntimeError", "error parsing"), 0)
          /\ UNCHANGED msg_info
  /\ UNCHANGED <<inbuf, peerClosed, sent, aborted, to_receive, data, msg, response,
                 outbuf, nRead, sinceRead>>
  /\ UNCHANGED codecVars

\* run: response = handler.handle(msg_info); if response == None: continue
Handle ==
  /\ pc = "handle"
  /\ \E o \in handle(msg_info) :
       IF o.res.k = "ok"
       THEN /\ response' = o.res.v
            /\ pc' = IF o.res.v.t = "None" THEN "read" ELSE "send"
            /\ UNCHANGED <<err, closes>>
       ELSE /\ Leave(o.res, o.closed)
            /\ UNCHANGED response
  /\ UNCHANGED <<inbuf, peerClosed, sent, aborted, to_receive, data, msg, msg_info,
                 outbuf, nRead, sinceRead>>
  /\ UNCHANGED codecVars

\* Stream.send writing size and data in two sendall calls
SendSplit ==
  /\ pc = "send"
  /\ \/ /\ outbuf' = outbuf \o <<ToBytes(Len(response.v), 4), response.v>>
        /\ sinceRead' = sinceRead + 2
        /\ pc' = "read"
        /\ UNCHANGED <<err, closes>>
     \/ /\ Leave(Raise("OSError", "sendall"), 0)
        /\ UNCHANGED <<outbuf, sinceRead>>
  /\ UNCHANGED <<inbuf, peerClosed, sent, aborted, to_receive, data, msg, msg_info,
                 response, nRead>>
  /\ UNCHANGED codecVars

\* Stream.send: self.sock.sendall(size + data), which may raise
Send ==
  /\ pc = "send"
  /\ \/ /\ outbuf' = Append(outbuf, ToBytes(Len(response.v), 4) \o response.v)
        /\ sinceRead' = sinceRead + 1
        /\ pc' = "read"
        /\ UNCHANGED <<err, closes>>
     \/ /\ Leave(Raise("OSError", "sendall"), 0)
        /\ UNCHANGED <<outbuf, sinceRead>>
  /\ UNCHANGED <<inbuf, peerClosed, sent, aborted, to_receive, data, msg, msg_info,
                 response, nRead>>
  /\ UNCHANGED codecVars

----------------------------------------------------------------------------
(* The codec on its own: Protocol.format and Protocol.parse applied to bounded
   inputs, as test_parser applies parse to buffers *)

\* the integer arguments tried for a '%Ni' directive: the two ends of its range
IntVals(width) == {IntMin(width), IntMax(width)}

\* the str values tried for a '%s' directive: 't' repeated 0..MaxStrLen times
StrVals == {[i \in 1..n |-> "t"] : n \in 0..MaxStrLen}

\* the argument tuples that fit template fmt; none when fmt has a '%I' directive
RECURSIVE ArgTuples(_)
ArgTuples(fmt) ==
  IF Len(fmt) = 0 THEN {<<>>}
  ELSE IF fmt[1] = "%"
  THEN LET r      == read_int(Tail(fmt))
           fmt_id == r.fmt[1]
           vals   == IF fmt_id = "i" THEN {PyInt(v) : v \in IntVals(r.width)}
                     ELSE IF fmt_id = "s" THEN {PyStr(v) : v \in StrVals}
                     ELSE {}
       IN {<<a>> \o t : a \in vals, t \in ArgTuples(Tail(r.fmt))}
  ELSE ArgTuples(Tail(fmt))

\* the int values tried at the ends of the range of a '%Ni' directive: every
\* value of a signed byte and the two next to them on each side; for 2 bytes the
\* ends of the range, the values next to them and the values around a byte
\* boundary; for 4 bytes the same within the range
IntProbe(width) ==
  CASE width = 1 -> -130..130
    [] width = 2 -> {-32769, -32768, -32767, -257, -256, -1, 0, 1, 255, 256,
                     32766, 32767, 32768}
    [] width = 4 -> {IntMin(4), IntMin(4) + 1, -65537, -1, 0, 1, 65536, 16777216,
                     IntMax(4) - 1, IntMax(4)}

\* the tuples of such values that fit template fmt
RECURSIVE ProbeTuples(_)
ProbeTuples(fmt) ==
  IF Len(fmt) = 0 THEN {<<>>}
  ELSE IF fmt[1] = "%"
  THEN LET r == read_int(Tail(fmt)) IN
       {<<PyInt(v)>> \o t : v \in IntProbe(r.width), t \in ProbeTuples(Tail(r.fmt))}
  ELSE ProbeTuples(Tail(fmt))

\* the definitions formatted with them: directives of 1, 2 and 4 bytes
ProbeNames == {"kMsgCScreenSaver", "kMsgDMouseMove", "kMsgCClipboard"}

\* buffers no call of format makes: unknown and short identifiers, the identifier
\* of kMsgHello followed by other characters than its template has, and encoded
\* kMsgDSetOptions messages
RawFrames ==
  { <<>>,
    encode(<<"S","y","n","e","X","X","X">>) \o <<0, 1, 0, 6>>,
    encode(<<"S","y","n","e","r","g","x">>) \o <<0, 1, 0, 6>>,
    encode(<<"X">>),
    encode(<<"D","K","R","P">>) \o <<0, 100, 0, 2, 0, 1, 0, 40>>,
    encode(<<"C","S","E","C">>) \o <<128>>,
    encode(<<"S","y","n">>),
    encode(<<"X","X","X","X">>),
    encode(<<"C","A","L","X">>),
    encode(<<"s","y","n","e","r","g","y">>) \o <<0, 1, 0, 6>>,
    encode(<<"X","X","X","X">>) \o <<0, 0, 0, 1, 116>>,
    encode(<<"D","S","O","P">>) \o <<0, 0, 0, 0>>,
    encode(<<"D","S","O","P">>) \o <<0, 0, 0, 1>> \o encode(<<"C","L","P","S">>),
    encode(<<"D","S","O","P">>) \o <<0, 0, 0, 2>> \o encode(<<"C","L","P","S">>)
       \o <<0, 0, 0, 1>>,
    encode(<<"D","S","O","P">>) \o <<0, 0, 0, 3>> \o encode(<<"C","L","P","S">>)
       \o <<0, 0, 0, 1>> \o encode(<<"H","D","C","L">>),
    encode(<<"D","S","O","P">>) \o <<0, 0, 0, 4>> \o encode(<<"C","L","P","S">>)
       \o <<0, 0, 0, 1>> \o encode(<<"H","D","C","L">>) \o <<255, 255, 255, 255>> }

\* cbuf = protocol.format(ProtocolMsg.<name>, *args)
CodecFormat ==
  /\ cpc = "idle"
  /\ \E i \in 1..Len(MsgNames) : \E args \in ArgTuples(MsgFmt(MsgNames[i])) :
       LET r == format(MsgFmt(MsgNames[i]), args) IN
       /\ r.k = "ok"
       /\ cname' = MsgNames[i]
       /\ cargs' = args
       /\ cbuf' = r.v
  /\ cpc' = "ready"
  /\ ckind' = "formatted"
  /\ UNCHANGED cres
  /\ UNCHANGED runVars

\* protocol.format(ProtocolMsg.<name>, *args) called with one argument less or
\* one argument more than the template has directives; cres is what it raised
CodecFormatArity ==
  /\ cpc = "idle"
  /\ \E i \in 1..Len(MsgNames) : \E args \in ArgTuples(MsgFmt(MsgNames[i])) :
     \E kind \in {"short", "surplus"} :
       LET given == IF kind = "short" THEN SliceTo(args, -1) ELSE Append(args, PyInt(1))
           r == format(MsgFmt(MsgNames[i]), given)
       IN
       /\ kind = "short" => Len(args) > 0
       /\ cname' = MsgNames[i]
       /\ cargs' = given
       /\ ckind' = kind
       /\ IF r.k = "ok"
          THEN cbuf' = r.v /\ cpc' = "ready" /\ UNCHANGED cres
          ELSE cres' = r /\ cpc' = "raised" /\ UNCHANGED cbuf
  /\ UNCHANGED runVars

\* protocol.format(ProtocolMsg.<name>, *args) with integers at and beyond the
\* ends of the range of each width; cres is what it raised
CodecFormatInt ==
  /\ cpc = "idle"
  /\ \E name \in ProbeNames : \E args \in ProbeTuples(MsgFmt(name)) :
       LET r == format(MsgFmt(name), args) IN
       /\ cname' = name
       /\ cargs' = args
       /\ IF r.k = "ok"
          THEN cbuf' = r.v /\ cpc' = "ready" /\ UNCHANGED cres
          ELSE cres' = r /\ cpc' = "raised" /\ UNCHANGED cbuf
  /\ ckind' = "intprobe"
  /\ UNCHANGED runVars

\* cbuf is a buffer written out, as the msg literals of test_parser are
CodecRaw ==
  /\ cpc = "idle"
  /\ cbuf' \in RawFrames
  /\ cpc' = "ready"
  /\ ckind' = "raw"
  /\ UNCHANGED <<cname, cargs, cres>>
  /\ UNCHANGED runVars

\* cbuf loses its last bytes: cbuf[:n] with n < len(cbuf)
CodecTruncate ==
  /\ cpc = "ready"
  /\ ckind \in {"formatted", "raw"}
  /\ \E n \in 0..(Len(cbuf) - 1) : cbuf' = SliceTo(cbuf, n)
  /\ ckind' = IF ckind = "formatted" THEN "truncated" ELSE "rawtruncated"
  /\ UNCHANGED <<cpc, cname, cargs, cres>>
  /\ UNCHANGED runVars

\* cbuf is an encoded message with one more byte after it: cbuf + extra
ExtraBytes == {<<0>>, <<88>>}

CodecExtend ==
  /\ cpc = "ready"
  /\ ckind = "formatted"
  /\ \E extra \in ExtraBytes : cbuf' = cbuf \o extra
  /\ ckind' = "extended"
  /\ UNCHANGED <<cpc, cname, cargs, cres>>
  /\ UNCHANGED runVars

\* a template no definition has: a '%s' that is not the last directive
StrNotLast == <<"D","F","T","R","%","s","%","s">>

\* cres = protocol._parse(StrNotLast, cbuf), for a cbuf with its identifier
CodecScan ==
  /\ cpc = "ready"
  /\ SliceTo(cbuf, 4) = msg_identifier(StrNotLast)
  /\ cres' = _parse(StrNotLast, cbuf)
  /\ cpc' = "scanned"
  /\ UNCHANGED <<ckind, cname, cargs, cbuf>>
  /\ UNCHANGED runVars

\* cres = protocol.parse(cbuf)
CodecParse ==
  /\ cpc = "ready"
  /\ cres' = parse(cbuf)
  /\ cpc' = "parsed"
  /\ UNCHANGED <<ckind, cname, cargs, cbuf>>
  /\ UNCHANGED runVars

\* message names MessageHandler has no method for
NoHandlerNames == {"kMsgDGameButtons", "kMsgCnoop"}

\* the msg_info lists handle is called with: every name with argument lists of
\* every length a handler unpacks, and of other lengths
HandlerArgs ==
  { <<>>, <<PyInt(1)>>, <<PyInt(1), PyInt(6)>>, <<PyInt(1), PyInt(2), PyInt(3)>>,
    <<PyInt(1), PyInt(2), PyInt(3), PyInt(4)>> }
HandlerInputs ==
  { [name |-> n, args |-> a] :
      n \in {MsgNames[i] : i \in 1..Len(MsgNames)} \cup NoHandlerNames,
      a \in HandlerArgs }

\* run from line 86 on, with a msg_info that is given instead of parsed
Dispatch ==
  /\ pc = "read"
  /\ msg_info.name = ""
  /\ msg_info' \in HandlerInputs
  /\ pc' = "handle"
  /\ UNCHANGED <<inbuf, peerClosed, sent, aborted, to_receive, data, msg, response,
                 outbuf, closes, err, nRead, sinceRead>>
  /\ UNCHANGED codecVars

CodecIdle ==
  /\ cpc = "idle" /\ ckind = "none" /\ cname = "" /\ cargs = <<>> /\ cbuf = <<>> /\ cres = NoErr

RunIdle ==
  /\ pc = "read"
  /\ inbuf = <<>>
  /\ peerClosed = FALSE
  /\ sent = <<>>
  /\ aborted = FALSE
  /\ to_receive = 0
  /\ data = <<>>
  /\ msg = PyNone
  /\ msg_info = [name |-> "", args |-> <<>>]
  /\ response = PyNone
  /\ outbuf = <<>>
  /\ closes = 0
  /\ err = NoErr
  /\ nRead = 0
  /\ sinceRead = 0

Init == RunIdle /\ CodecIdle

Next ==
  \/ \E f \in ServerFrames : ServerSend(f)
  \/ ServerClose
  \/ \E f \in ServerFrames : \E n \in 0..(Len(f) - 1) : ServerAbort(f, n)
  \/ RecvSize
  \/ RecvData
  \/ RecvError
  \/ Parse
  \/ Handle
  \/ Send

Spec == Init /\ [][Next]_vars

\* run() is a running thread: the step it is at is taken sooner or later; what
\* the server does and whether recv or sendall raise is left open
SpecLive ==
  /\ Spec
  /\ WF_vars(RecvSize) /\ WF_vars(RecvData) /\ WF_vars(Parse) /\ WF_vars(Handle)
  /\ WF_vars(Send)

NextCodec ==
  \/ CodecFormat
  \/ CodecFormatArity
  \/ CodecFormatInt
  \/ CodecRaw
  \/ CodecTruncate
  \/ CodecExtend
  \/ CodecParse
  \/ CodecScan

SpecCodec == Init /\ [][NextCodec]_vars

NextDispatch ==
  \/ Dispatch
  \/ Handle
  \/ Send

SpecDispatch == Init /\ [][NextDispatch]_vars

----------------------------------------------------------------------------
(* Properties *)

CALV == encode(<<"C","A","L","V">>)
HelloBackBytes ==
  encode(Synergy) \o <<0, 1, 0, 6>> \o <<0, 0, 0, 6>> \o encode(<<"t","a","b","l","e","t">>)

\* the bytes on the wire of the frames of payloads fs
RECURSIVE WireAll(_)
WireAll(fs) ==
  IF Len(fs) = 0 THEN <<>>
  ELSE ToBytes(Len(fs[1]), 4) \o fs[1] \o WireAll(Tail(fs))

IsBytes(m, b) == m.t = "bytes" /\ m.v = b

(* C1: whatever chunks recv returns, Stream.read returns exactly the payload of
   the frame the server wrote, and leaves the frames after it untouched. Stated
   for runs in which the server wrote whole frames only. *)
C1_ReadReturnsTheFrame ==
  (pc = "parse" /\ ~aborted) =>
     /\ nRead <= Len(sent)
     /\ msg.v = sent[nRead]
     /\ inbuf = WireAll(SubSeq(sent, nRead + 1, Len(sent)))

\* the definitions whose identifier is the first 4 bytes of buf
MatchingNames(buf) == {MsgNames[i] : i \in Matching(buf)}

\* the pairs of definitions that share their identifier
SharedIdentifier ==
  { {"kMsgHello", "kMsgHelloBack"},
    {"kMsgDKeyDown", "kMsgDKeyDown1_0"},
    {"kMsgDKeyRepeat", "kMsgDKeyRepeat1_0"},
    {"kMsgDKeyUp", "kMsgDKeyUp1_0"},
    {"kMsgDMouseWheel", "kMsgDMouseWheel1_0"} }

SameValue(got, given) ==
  \/ got.t = "int" /\ given.t = "int" /\ got.v = given.v
  \/ got.t = "bytes" /\ given.t = "str" /\ got.v = encode(given.v)

(* C3: parse(format(definition, args)) is (name of the definition, args), for
   every definition with '%Ni' and '%s' directives only and all fitting
   arguments. A decoded string counts as equal to the str it was encoded from. *)
C3_RoundTrip ==
  (cpc = "parsed" /\ ckind = "formatted") =>
     /\ cres.k = "ok"
     /\ cres.v.name = cname
     /\ Len(cres.v.args) = Len(cargs)
     /\ \A i \in 1..Len(cargs) : SameValue(cres.v.args[i], cargs[i])

(* C4: parse of an encoded message cut before its last byte fails; it never
   returns a record. *)
C4_TruncatedFails ==
  (cpc = "parsed" /\ ckind \in {"truncated", "rawtruncated"}) => cres.k = "raise"

(* C5: run() is sequential: a frame read is parsed and handled, and its one
   reply written, before the next frame is read. No reply is written while a
   frame is being parsed or handled, at most one is written between two reads,
   and the frames written never outnumber the frames read. *)
C5_Sequential ==
  /\ Len(outbuf) <= nRead
  /\ sinceRead <= 1
  /\ pc \in {"parse", "handle", "send"} => sinceRead = 0

C5_Witness ==
  pc = "read" /\ nRead = 2 /\ Len(outbuf) = 2 /\ sinceRead = 1

(* C6: a frame CALV decodes to (kMsgCKeepAlive, []); handling it has the one
   outcome of returning CALV, and the frame of payload CALV is the one frame
   written before the next frame is read. *)
C6_KeepAlive ==
  IsBytes(msg, CALV) =>
    /\ pc = "handle" =>
         /\ msg_info = [name |-> "kMsgCKeepAlive", args |-> <<>>]
         /\ handle(msg_info) = {Outcome(Ok(PyBytes(CALV)), 0)}
    /\ pc = "send" => IsBytes(response, CALV) /\ sinceRead = 0
    /\ pc \in {"read", "recv_data"} =>
         /\ sinceRead = 1
         /\ outbuf[Len(outbuf)] = <<0, 0, 0, 4>> \o CALV

C6_Witness ==
  /\ pc = "read" /\ IsBytes(msg, CALV) /\ nRead = 2
  /\ Len(outbuf) = 1 /\ outbuf[1] = <<0, 0, 0, 4>> \o CALV

\* msg is Synergy followed by two 16-bit integers
IsHello(m) == m.t = "bytes" /\ Len(m.v) = 11 /\ SliceTo(m.v, 7) = encode(Synergy)

(* C7: a frame Synergy + major + minor decodes to (kMsgHello, [major, minor]);
   handling it has the one outcome of returning the encoding of
   (kMsgHelloBack, [1, 6, 'tablet']), whatever major and minor are. *)
C7_Handshake ==
  IsHello(msg) =>
    /\ pc = "handle" =>
         /\ msg_info = [name |-> "kMsgHello",
                        args |-> <<PyInt(FromBytes(SubSeq(msg.v, 8, 9))),
                                   PyInt(FromBytes(SubSeq(msg.v, 10, 11)))>>]
         /\ handle(msg_info) = {Outcome(Ok(PyBytes(HelloBackBytes)), 0)}
    /\ pc = "send" => IsBytes(response, HelloBackBytes)
    /\ pc \in {"read", "recv_data"} =>
         /\ sinceRead = 1
         /\ outbuf[Len(outbuf)] = <<0, 0, 0, 21>> \o HelloBackBytes

C7_Witness ==
  /\ pc = "read" /\ IsBytes(msg, encode(Synergy) \o <<0, 2, 255, 255>>)
  /\ msg_info.args = <<PyInt(2), PyInt(-1)>>
  /\ outbuf = << <<0, 0, 0, 21>> \o HelloBackBytes >>

\* msg is a close-connection or an error message
IsFatal(m) ==
  /\ m.t = "bytes"
  /\ SliceTo(m.v, 4) \in { encode(<<"C","B","Y","E">>), encode(<<"E","I","C","V">>),
                           encode(<<"E","B","S","Y">>), encode(<<"E","U","N","K">>),
                           encode(<<"E","B","A","D">>) }

(* C8: once CBYE, EICV, EBSY, EUNK or EBAD has been received, run() only parses
   and handles it and then stops: no frame is written for it, the stream is
   closed, and once run() has stopped nothing is read or written. *)
C8_Termination ==
  /\ [](IsFatal(msg) =>
          /\ pc \in {"parse", "handle", "closed"}
          /\ sinceRead = 0
          /\ pc = "closed" => closes >= 1 /\ err.k = "raise")
  /\ [][pc = "closed" =>
          /\ pc' = "closed"
          /\ UNCHANGED <<inbuf, outbuf, nRead, msg, closes>>]_vars

C8_Witness ==
  /\ pc = "closed" /\ IsBytes(msg, encode(<<"E","B","A","D">>))
  /\ nRead = 1 /\ Len(sent) = 2 /\ inbuf # <<>> /\ outbuf = <<>> /\ closes = 1

\* the connection is closed mid-frame: recv has nothing more to return
ClosedMidFrame == pc = "recv_data" /\ inbuf = <<>> /\ peerClosed

(* C9: when the connection is closed mid-frame, Stream.read fails: it does not
   return a buffer and does not go on as if the stream had ended cleanly. *)
C9_MidFrameCloseFails ==
  [][ClosedMidFrame => (pc' = "closed" /\ err'.k = "raise")]_vars

\* no template starts with the first 4 bytes of buf
NoPrefix(buf) ==
  \A i \in 1..Len(MsgNames) :
     SliceTo(buf, 4) # [j \in 1..4 |-> ord(MsgFmt(MsgNames[i])[j])]

(* C10: parse of a frame whose first 4 bytes are no definition's identifier
   (the empty frame and frames of fewer than 4 bytes included) raises the
   ValueError 'Could not parse message' and nothing else. *)
C10_UnknownIdentifier ==
  (cpc = "parsed" /\ NoPrefix(cbuf)) =>
     cres = Raise("ValueError", "Could not parse message")

C10_Witness ==
  /\ cpc = "parsed" /\ NoPrefix(cbuf) /\ Len(cbuf) = 3
  /\ cres.k = "raise" /\ cres.err = "ValueError"

(* C11: a parse that succeeds has consumed the whole frame: parsing a valid
   encoded message followed by one extra byte fails with the decode error
   instead of returning a record. *)
C11_LeftoverFails ==
  (/\ cpc = "parsed"
   /\ ckind = "extended"
   /\ parse(SliceTo(cbuf, -1)) = Ok([name |-> cname, args |-> cargs]))
  => cres = Raise("ValueError", "Could not parse message")

\* buf starts with the identifier of kMsgHello and goes on with a byte that is
\* not the character the template has there
LiteralDiffers(buf) ==
  /\ Len(buf) > 4
  /\ SliceTo(buf, 4) = encode(<<"S","y","n","e">>)
  /\ \E i \in 5..Min(7, Len(buf)) : buf[i] # encode(Synergy)[i]

(* C12: a frame whose first 4 bytes select a template and in which a later
   literal character differs fails to parse with the decode error: parse
   neither returns a record nor raises another kind of error. *)
C12_LiteralMismatch ==
  (cpc = "parsed" /\ LiteralDiffers(cbuf))
  => cres = Raise("ValueError", "Could not parse message")

(* C13: dispatching a message whose name gives a method name MessageHandler does
   not define fails with the KeyError 'Could not find handler for' carrying the
   message name: handle has that single outcome, it leaves run(), no handler
   result is taken for a response and no frame is written. *)
C13_NoHandler ==
  msg_info.name \in NoHandlerNames
  => LET e == RaiseWith("KeyError", "Could not find handler for", msg_info.name) IN
     /\ handle(msg_info) = {Outcome(e, 0)}
     /\ pc \in {"handle", "closed"}
     /\ pc = "closed" => err = e
     /\ response = PyNone
     /\ outbuf = <<>>

C13_Witness ==
  /\ pc = "closed"
  /\ msg_info = [name |-> "kMsgDGameButtons", args |-> <<PyInt(1)>>]
  /\ err.k = "raise" /\ err.err = "KeyError" /\ err.arg = "kMsgDGameButtons"

(* C14: when the handler that handle invokes fails, handle raises the
   RuntimeError 'Error handling message' carrying msg_info, the message name and
   the parsed arguments; the error leaves run(), which writes no frame and reads
   no further frame. A response is taken only from a handler that returned. *)
C14_HandlerFailure ==
  /\ [][(pc = "handle" /\ pc' # "handle" /\ get_handler(msg_info.name).k = "ok")
        => LET outs == call(get_handler(msg_info.name).v, msg_info) IN
           \/ \E o \in outs :
                /\ o.res.k = "ok"
                /\ response' = o.res.v
                /\ pc' \in {"read", "send"}
                /\ err' = NoErr
           \/ \E o \in outs :
                /\ o.res.k = "raise"
                /\ err' = RaiseWith("RuntimeError", "Error handling message", msg_info)
                /\ pc' = "closed"
                /\ nRead' = nRead /\ outbuf' = outbuf]_vars
  /\ [][(pc = "closed" /\ err.k = "raise" /\ err.what = "Error handling message")
        => (pc' = "closed" /\ nRead' = nRead /\ inbuf' = inbuf /\ outbuf' = outbuf)]_vars

C14_Witness ==
  /\ pc = "closed"
  /\ msg_info = [name |-> "kMsgEIncompatible", args |-> <<PyInt(1), PyInt(6)>>]
  /\ err = RaiseWith("RuntimeError", "Error handling message", msg_info)
  /\ nRead = 1

(* C15: dispatching kMsgCClose (CBYE) ends run() with an outcome that is not a
   handler failure: it is not the wrapped 'Error handling message' error, and
   the handler does not exit the process from inside the dispatch. *)
C15_CloseIsNotAFailure ==
  (pc = "closed" /\ msg_info.name = "kMsgCClose" /\ nRead > 0)
  => /\ ~(err.k = "raise" /\ err.what = "Error handling message")
     /\ \A o \in on_c_close(msg_info) : ~(o.res.k = "raise" /\ o.res.err = "SystemExit")

\* the frame answering Hello has been written
HelloAnswered ==
  \E i \in 1..Len(outbuf) : outbuf[i] = ToBytes(Len(HelloBackBytes), 4) \o HelloBackBytes

\* the key, mouse, clipboard, options, query-info and keep-alive messages
GatedNames ==
  { "kMsgCKeepAlive", "kMsgQInfo", "kMsgCClipboard", "kMsgCResetOptions",
    "kMsgDKeyDown", "kMsgDKeyRepeat", "kMsgDKeyUp", "kMsgDMouseDown", "kMsgDMouseUp",
    "kMsgDMouseMove", "kMsgDMouseRelMove", "kMsgDMouseWheel", "kMsgDClipboard",
    "kMsgDSetOptions" }

(* C16: no key, mouse, clipboard, options, query-info or keep-alive message is
   dispatched to its handler before Hello has been received and answered with
   HelloBack. *)
C16_HandshakeGating ==
  [][(/\ pc = "handle"
      /\ pc' # "handle"
      /\ msg_info.name \in GatedNames
      /\ get_handler(msg_info.name).k = "ok")
     => HelloAnswered]_vars

(* C17: format takes its arguments in template order and takes them all: called
   with fewer arguments than the template has directives, or with more, it fails
   and returns no bytes. *)
C17_ArityChecked ==
  ckind \in {"short", "surplus"} => (cpc = "raised" /\ cres.k = "raise")

\* the widths of the directives of the definitions of ProbeNames
Widths(name) ==
  CASE name = "kMsgCScreenSaver" -> <<1>>
    [] name = "kMsgDMouseMove" -> <<2, 2>>
    [] name = "kMsgCClipboard" -> <<1, 4>>
Identifier(name) ==
  CASE name = "kMsgCScreenSaver" -> encode(<<"C","S","E","C">>)
    [] name = "kMsgDMouseMove" -> encode(<<"D","M","M","V">>)
    [] name = "kMsgCClipboard" -> encode(<<"C","C","L","P">>)

\* the w bytes of u >= 0, most significant first
Unsigned(u, w) ==
  [i \in 1..w |-> (u \div (IF i = w THEN 1 ELSE IF i = w - 1 THEN 256
                            ELSE IF i = w - 2 THEN 65536 ELSE 16777216)) % 256]
\* two's complement of v in w bytes: the bytes of v, or of -(v+1) with every bit
\* inverted
TwosComplement(v, w) ==
  IF v >= 0 THEN Unsigned(v, w)
  ELSE [i \in 1..w |-> 255 - Unsigned(0 - (v + 1), w)[i]]

RECURSIVE Encoded(_, _)
Encoded(args, ws) ==
  IF Len(args) = 0 THEN <<>>
  ELSE TwosComplement(args[1].v, ws[1]) \o Encoded(Tail(args), Tail(ws))

InRange(args, ws) ==
  \A i \in 1..Len(args) : args[i].v >= IntMin(ws[i]) /\ args[i].v <= IntMax(ws[i])

(* C18: for a directive of width 1, 2 or 4 a value within the signed range of
   the width is encoded as that many bytes, big-endian two's complement, and
   parsing the bytes gives the value back; a value outside the range makes
   format fail (struct.error) and return no bytes; the byte 0x80 of a 1-byte
   directive decodes to -128. *)
C18_WidthFidelity ==
  /\ ckind = "intprobe"
     => LET ws == Widths(cname) IN
        /\ cpc \in {"raised", "ready", "parsed"}
        /\ cpc = "raised" <=> ~InRange(cargs, ws)
        /\ cpc = "raised" => (cres.k = "raise" /\ cres.err = "struct.error" /\ cbuf = <<>>)
        /\ cpc # "raised" => cbuf = Identifier(cname) \o Encoded(cargs, ws)
        /\ cpc = "parsed" => cres = Ok([name |-> cname, args |-> cargs])
  /\ (cpc = "parsed" /\ cbuf = encode(<<"C","S","E","C">>) \o <<128>>)
     => cres = Ok([name |-> "kMsgCScreenSaver", args |-> <<PyInt(-128)>>])

C18_Witness ==
  /\ cpc = "parsed"
  /\ ckind = "intprobe"
  /\ cname = "kMsgCClipboard"
  /\ cargs = <<PyInt(-128), PyInt(IntMin(4))>>
  /\ cbuf = encode(<<"C","C","L","P">>) \o <<128, 128, 0, 0, 0>>
  /\ cres.k = "ok"

\* buf is 'DSOP', a count N below 256 and N elements of 4 bytes, the tags ASCII
VecCount(buf) == buf[8]
IsVector(buf) ==
  /\ Len(buf) >= 8
  /\ SliceTo(buf, 4) = encode(<<"D","S","O","P">>)
  /\ SubSeq(buf, 5, 7) = <<0, 0, 0>>
  /\ Len(buf) = 8 + 4 * VecCount(buf)
  /\ \A i \in 9..Len(buf) : ((i - 9) \div 4) % 2 = 0 => buf[i] < 128
\* the integers the elements of the vectors tried hold
VecInts == {-1, 0, 1, 2}
\* element i of the vector, counted from 0
VecElement(buf, i) ==
  LET e == SubSeq(buf, 9 + 4 * i, 12 + 4 * i) IN
  IF i % 2 = 0 THEN PyStr([k \in 1..4 |-> chr(e[k])])
  ELSE PyInt(CHOOSE v \in VecInts : TwosComplement(v, 4) = e)

(* C19: the 4-byte count N of a vector directive counts elements, not pairs:
   parse consumes N elements of 4 bytes, an element of even index being a
   4-character tag and one of odd index a big-endian signed integer, and the
   record has one argument, the list of the N elements in order; count 2, CLPS,
   00 00 00 01 gives ['CLPS', 1]. *)
C19_VectorDecode ==
  (cpc = "parsed" /\ IsVector(cbuf))
  => /\ cres = Ok([name |-> "kMsgDSetOptions",
                   args |-> <<PyList([i \in 1..VecCount(cbuf)
                                        |-> VecElement(cbuf, i - 1)])>>])
     /\ (VecCount(cbuf) = 2 /\ SliceFrom(cbuf, 8) = encode(<<"C","L","P","S">>) \o <<0, 0, 0, 1>>)
        => cres.v.args = <<PyList(<<PyStr(<<"C","L","P","S">>), PyInt(1)>>)>>

C19_Witness ==
  /\ cpc = "parsed"
  /\ cbuf = encode(<<"D","S","O","P">>) \o <<0, 0, 0, 2>> \o encode(<<"C","L","P","S">>)
              \o <<0, 0, 0, 1>>
  /\ cres = Ok([name |-> "kMsgDSetOptions",
                args |-> <<PyList(<<PyStr(<<"C","L","P","S">>), PyInt(1)>>)>>])

\* the frame Stream.read has just returned is, byte for byte, one Stream.send
\* wrote before: the peer sent back what it was sent
ReadBack ==
  /\ pc = "parse"
  /\ ~aborted
  /\ nRead <= Len(sent)
  /\ \E i \in 1..Len(outbuf) : outbuf[i] = ToBytes(Len(sent[nRead]), 4) \o sent[nRead]

(* C20: Stream.send(payload) makes exactly one write, of the 4-byte big-endian
   length of the payload followed by the payload unchanged; and a frame written
   by send, when read back by Stream.read, gives the same payload. *)
C20_SendThenReadBack ==
  /\ [][outbuf' # outbuf
        => (/\ pc = "send"
            /\ outbuf' = Append(outbuf, TwosComplement(Len(response.v), 4) \o response.v))]_vars
  /\ [](ReadBack => msg.v = sent[nRead])

\* the positions, in declaration order, of the definitions whose template starts
\* with the 4 characters buf starts with
Candidates(buf) ==
  {i \in 1..Len(MsgNames) :
     Len(buf) >= 4 /\ \A k \in 1..4 : chr(buf[k]) = MsgFmt(MsgNames[i])[k]}
\* the definitions declared after another one with the same first 4 characters
Shadowed ==
  {"kMsgHelloBack", "kMsgDKeyDown1_0", "kMsgDKeyRepeat1_0", "kMsgDKeyUp1_0",
   "kMsgDMouseWheel1_0"}
NamePos(name) == CHOOSE i \in 1..Len(MsgNames) : MsgNames[i] = name

(* C21: parse takes the first definition, in declaration order, whose first 4
   characters are the first 4 bytes of the frame, and decodes against that
   template only: the name returned is that of the first candidate, never one of
   the five definitions declared after a definition with the same characters,
   and when the first candidate does not decode the frame parse fails, whether
   or not a later candidate would decode it. *)
C21_FirstMatchOnly ==
  cpc = "parsed"
  => LET cand == Candidates(cbuf) IN
     /\ cres.k = "ok"
        => /\ cand # {}
           /\ \A j \in cand : NamePos(cres.v.name) <= j
           /\ NamePos(cres.v.name) \in cand
           /\ cres.v.name \notin Shadowed
     /\ \A i \in cand :
          (\A j \in cand : i <= j) /\ _parse(MsgFmt(MsgNames[i]), cbuf).k # "ok"
          => cres.k = "raise"

C21_Witness ==
  /\ cpc = "parsed" /\ ckind = "formatted"
  /\ cname = "kMsgDKeyDown1_0"
  /\ Candidates(cbuf) = {NamePos("kMsgDKeyDown"), NamePos("kMsgDKeyDown1_0")}
  /\ _parse(kMsgDKeyDown1_0, cbuf).k = "ok"
  /\ cres.k = "raise"

\* the definitions whose last directive is '%s' and that parse selects, with the
\* number of bytes their integer directives take
StrLastBytes(name) ==
  CASE name = "kMsgDKeyDownLang" -> 6
    [] name = "kMsgDKeyRepeat" -> 8
    [] name = "kMsgDClipboard" -> 6
    [] name = "kMsgDFileTransfer" -> 1
    [] name = "kMsgDDragInfo" -> 2
    [] name = "kMsgDSecureInputNotification" -> 0
    [] name = "kMsgDLanguageSynchronisation" -> 0
    [] OTHER -> -1
\* cbuf is an encoding of such a definition cut where its string starts
EndsBeforeString ==
  /\ ckind = "truncated"
  /\ StrLastBytes(cname) >= 0
  /\ Len(cbuf) = 4 + StrLastBytes(cname)

(* C22: when the last directive of the template selected is '%s' and the buffer
   is used up when that directive is reached, parse returns the record with the
   arguments before the string and without the string (DKRP and four 16-bit
   integers give kMsgDKeyRepeat with exactly 4 arguments); a '%s' that is not the
   last directive is not skipped: on a used-up buffer _parse raises. *)
C22_TrailingStringOptional ==
  /\ (cpc = "parsed" /\ EndsBeforeString)
     => cres = Ok([name |-> cname, args |-> SliceTo(cargs, -1)])
  /\ (cpc = "parsed" /\ cbuf = encode(<<"D","K","R","P">>) \o <<0, 100, 0, 2, 0, 1, 0, 40>>)
     => cres = Ok([name |-> "kMsgDKeyRepeat",
                   args |-> <<PyInt(100), PyInt(2), PyInt(1), PyInt(40)>>])
  /\ cpc = "scanned"
     => /\ Len(cbuf) = 4 => (cres.k = "raise" /\ cres.err = "struct.error")
        /\ cres.k = "ok" => Len(cres.v) >= 1

C22_Witness ==
  /\ cpc = "parsed"
  /\ EndsBeforeString
  /\ cname = "kMsgDKeyRepeat"
  /\ Len(cargs) = 5
  /\ cres.k = "ok" /\ Len(cres.v.args) = 4

\* the message names of ProtocolMsg
Registry == {MsgNames[i] : i \in 1..Len(MsgNames)}

(* C23: for every message name of ProtocolMsg the method name get_handler
   derives is a method of MessageHandler, and two message names never derive the
   same method name; so dispatching a message with such a name, as every record
   parse returns has, never fails with the 'Could not find handler for' KeyError. *)
C23_HandlerCoverage ==
  /\ \A n \in Registry : method_name(n) \in Methods /\ get_handler(n).k = "ok"
  /\ \A n1, n2 \in Registry : method_name(n1) = method_name(n2) => n1 = n2
  /\ msg_info.name \in Registry
     => /\ \A o \in handle(msg_info) :
             ~(o.res.k = "raise" /\ o.res.what = "Could not find handler for")
        /\ err.k = "raise" => err.what # "Could not find handler for"

C23_Witness ==
  /\ pc = "read"
  /\ msg_info.name = "kMsgDKeyDown1_0"
  /\ method_name(msg_info.name) = <<"o","n","_","d","_","k","e","y","_","d","o","w","n","1","_","0">>
  /\ err = NoErr

\* the messages that have a reply
Replied == {"kMsgHello", "kMsgCKeepAlive", "kMsgQInfo"}
\* the DINF payload for a monitor of width w and height h
DInfoBytes(w, h) ==
  encode(<<"D","I","N","F">>)
    \o Encoded(<<PyInt(0), PyInt(0), PyInt(w), PyInt(h), PyInt(0), PyInt(w \div 2),
                 PyInt(h \div 2)>>, <<2, 2, 2, 2, 2, 2, 2>>)
\* payload p is the reply to the message of name n
IsReplyTo(p, n) ==
  \/ n = "kMsgHello" /\ p = HelloBackBytes
  \/ n = "kMsgCKeepAlive" /\ p = CALV
  \/ n = "kMsgQInfo" /\ \E m \in Monitors : p = DInfoBytes(m[1], m[2])

(* C24: the client writes a frame only as the reply to the message it has just
   dispatched, and only kMsgHello (HelloBack), kMsgCKeepAlive (CALV) and
   kMsgQInfo (DINF with the seven 16-bit fields 0, 0, width, height, 0,
   width div 2, height div 2) have a reply; dispatching any other message of
   ProtocolMsg writes no frame. *)
C24_RepliesOnly ==
  /\ [][outbuf' # outbuf
        => /\ pc = "send"
           /\ msg_info.name \in Replied
           /\ \E p \in {response.v} :
                /\ IsReplyTo(p, msg_info.name)
                /\ outbuf' = Append(outbuf, TwosComplement(Len(p), 4) \o p)]_vars
  /\ []((msg_info.name \in Registry \ Replied)
         => /\ outbuf = <<>>
            /\ pc # "send"
            /\ \A o \in handle(msg_info) : o.res.k = "ok" => o.res.v = PyNone)

C24_Witness ==
  /\ pc = "read"
  /\ msg_info.name = "kMsgQInfo"
  /\ outbuf = <<TwosComplement(18, 4) \o DInfoBytes(1920, 1080)>>
  /\ DInfoBytes(1920, 1080) =
       <<68, 73, 78, 70, 0, 0, 0, 0, 7, 128, 4, 56, 0, 0, 3, 192, 2, 28>>

\* the errors that leave run(): OSError from recv and sendall, struct.error from
\* a short length prefix, RuntimeError from a failing parse or handler
FailureKinds == {"OSError", "struct.error", "RuntimeError"}

(* C25: a failure ends the connection and is not retried: whenever run() stops
   because a read, a parse, a dispatch or a send failed, stream.close() has been
   called by the time run() has stopped, and from then on nothing is read from
   or written to the connection and run() does not start again. *)
C25_FailureIsTerminal ==
  /\ [][(pc # "closed" /\ pc' = "closed")
        => /\ err'.k = "raise" /\ err'.err \in FailureKinds
           /\ closes' >= closes + 1]_vars
  /\ [](pc = "closed" => (err.k = "raise" /\ closes >= 1))
  /\ [][pc = "closed"
        => UNCHANGED <<pc, err, inbuf, outbuf, nRead, sinceRead, closes, msg, msg_info,
                       response, to_receive, data>>]_vars

C25_Witness ==
  /\ pc = "closed"
  /\ err = Raise("OSError", "sendall")
  /\ closes = 1
  /\ inbuf # <<>>
  /\ outbuf = <<>>

\* the server has closed the connection between two frames and run() is at its
\* read: recv has only b'' to return
CleanEnd == pc = "read" /\ inbuf = <<>> /\ peerClosed /\ ~aborted

(* C26: when the peer closes the connection cleanly between two frames,
   Stream.read returns None and nothing is parsed or dispatched, and run() then
   terminates with the stream closed instead of reading forever. *)
C26_CleanCloseTerminates ==
  /\ [][(CleanEnd /\ pc' # "closed")
        => (pc' = "read" /\ msg' = PyNone /\ msg_info' = msg_info /\ outbuf' = outbuf)]_vars
  /\ (CleanEnd ~> (pc = "closed" /\ closes >= 1))

====
